---------------------------- MODULE Spec2Model ----------------------------
(***************************************************************************)
(* Model of the Israel Bus CLI (src/main.py, src/bus_info.py).             *)
(*                                                                         *)
(* Text is modelled as a sequence of one-character strings, so that        *)
(* str(), strip(), int(), startswith(), endswith(), replace() and          *)
(* datetime.fromisoformat() are computed on the characters as the code     *)
(* computes them.  Python integers are unbounded: an integer is kept as    *)
(* its sign and its decimal digits.                                        *)
(*                                                                         *)
(* A JSON value of an upstream record is [k, s]: k = "none" (the key is    *)
(* absent), "null" (JSON null), "int" (a JSON integer, s its decimal       *)
(* rendering) or "str" (a JSON string, s its characters).                  *)
(***************************************************************************)
EXTENDS Integers, Sequences, FiniteSets, TLC

VARIABLES
    \* one call of format_arrival: its position, the line record, the clock,
    \* whether the Asia/Jerusalem zone could be loaded, the outcome
    fa_pc, fa_line, fa_now, fa_tz, fa_out,
    \* one call of list_nearby_stops: its position, the upstream stop list,
    \* the limit argument, the returned list
    ns_pc, ns_upstream, ns_limit, ns_out,
    \* one call of select_lines_by_number: its position, the lines, the
    \* number argument, the returned list
    fl_pc, fl_lines, fl_number, fl_out,
    \* one run of main(): the position in it, the parsed command line, whether
    \* lat and lon are set, the geocoding candidates on offer, the stop list
    \* in hand, the chosen stop (a list of at most one), what was printed to
    \* standard output and standard error, the upstream calls made, the exit
    \* status, and the number of inputs read from the user
    pc, args, coords, geo, stops, chosen_stop, stdout, stderr, calls, exit_status, inputs

arrivalVars == <<fa_pc, fa_line, fa_now, fa_tz, fa_out>>

sortVars == <<ns_pc, ns_upstream, ns_limit, ns_out>>

filterVars == <<fl_pc, fl_lines, fl_number, fl_out>>

\* the variables of the single calls, which a run of main() leaves alone
callVars == <<arrivalVars, sortVars, filterVars>>

runVars == <<pc, args, coords, geo, stops, chosen_stop, stdout, stderr, calls,
             exit_status, inputs>>

vars == <<fa_pc, fa_line, fa_now, fa_tz, fa_out, ns_pc, ns_upstream, ns_limit, ns_out,
          fl_pc, fl_lines, fl_number, fl_out,
          pc, args, coords, geo, stops, chosen_stop, stdout, stderr, calls,
          exit_status, inputs>>

-----------------------------------------------------------------------------
(* Characters and text *)

DigitChars == <<"0", "1", "2", "3", "4", "5", "6", "7", "8", "9">>

Digits == {DigitChars[i] : i \in 1..10}

DigitVal(c) == (CHOOSE i \in 1..10 : DigitChars[i] = c) - 1

Whitespace == {" ", "\t", "\n"}

\* s[a..b], empty when a > b
Slice(s, a, b) == IF a > b THEN <<>> ELSE SubSeq(s, a, b)

\* str.startswith / str.endswith
StartsWith(s, p) == Len(s) >= Len(p) /\ SubSeq(s, 1, Len(p)) = p

EndsWith(s, p) == Len(s) >= Len(p) /\ SubSeq(s, Len(s) - Len(p) + 1, Len(s)) = p

\* str.strip(): drop leading and trailing whitespace
Strip(s) ==
    LET keep == {i \in 1..Len(s) : s[i] \notin Whitespace}
    IN  IF keep = {} THEN <<>>
        ELSE LET lo == CHOOSE i \in keep : \A j \in keep : i <= j
                 hi == CHOOSE i \in keep : \A j \in keep : j <= i
             IN  SubSeq(s, lo, hi)

RECURSIVE ReplaceZ(_)
\* ts.replace("Z", "+00:00"): every "Z" is replaced
ReplaceZ(s) ==
    IF s = <<>> THEN <<>>
    ELSE (IF Head(s) = "Z" THEN <<"+", "0", "0", ":", "0", "0">> ELSE <<Head(s)>>)
         \o ReplaceZ(Tail(s))

RECURSIVE Join(_, _)
\* sep.join(parts)
Join(parts, sep) ==
    IF parts = <<>> THEN <<>>
    ELSE IF Len(parts) = 1 THEN parts[1]
    ELSE parts[1] \o sep \o Join(Tail(parts), sep)

\* "%02d" of a number below 100
Pad2(n) == <<DigitChars[(n \div 10) + 1], DigitChars[(n % 10) + 1]>>

-----------------------------------------------------------------------------
(* JSON values and Python's view of them *)

NoneVal == [k |-> "none", s |-> <<>>]

NullVal == [k |-> "null", s |-> <<>>]

\* rec.get(key) is None: the key is absent or null
IsNone(v) == v.k \in {"none", "null"}

IntVal(s) == [k |-> "int", s |-> s]

StrVal(s) == [k |-> "str", s |-> s]

\* str(v)
PyStr(v) == IF IsNone(v) THEN <<"N", "o", "n", "e">> ELSE v.s

\* bool(v): None, 0 and "" are falsy
Truthy(v) ==
    CASE IsNone(v)    -> FALSE
      [] v.k = "int"  -> v.s # <<"0">>
      [] OTHER        -> v.s # <<>>

\* a or b
PyOr(a, b) == IF Truthy(a) THEN a ELSE b

-----------------------------------------------------------------------------
(* Unbounded integers: [ok, neg, dg], dg the digits without leading zeros  *)
(* (empty for 0)                                                           *)

NoInt == [ok |-> FALSE, neg |-> FALSE, dg |-> <<>>]

RECURSIVE DropZeros(_)
DropZeros(d) == IF d # <<>> /\ Head(d) = "0" THEN DropZeros(Tail(d)) ELSE d

\* the integer of digits ds, negative when signed "-" and not zero
IntOfDigits(ds, minus) ==
    [ok |-> TRUE, neg |-> (minus /\ DropZeros(ds) # <<>>), dg |-> DropZeros(ds)]

\* digits with single underscores between them
BodyWellFormed(body) ==
    /\ Len(body) > 0
    /\ \A i \in 1..Len(body) : body[i] \in Digits \cup {"_"}
    /\ body[1] \in Digits /\ body[Len(body)] \in Digits
    /\ \A i \in 1..(Len(body) - 1) : ~(body[i] = "_" /\ body[i + 1] = "_")

\* more than 4300 digits is a ValueError too
IntOfBody(body, minus) ==
    IF BodyWellFormed(body) /\ Len(SelectSeq(body, LAMBDA c : c \in Digits)) <= 4300
    THEN IntOfDigits(SelectSeq(body, LAMBDA c : c \in Digits), minus)
    ELSE NoInt

\* an optional sign, then the body
IntOfStripped(t) ==
    IF t # <<>> /\ t[1] \in {"+", "-"}
    THEN IntOfBody(Tail(t), t[1] = "-")
    ELSE IntOfBody(t, FALSE)

\* int(text): surrounding whitespace is dropped first
ParseInt(text) == IntOfStripped(Strip(text))

\* str(n) of an integer
IntText(b) ==
    IF b.dg = <<>> THEN <<"0">>
    ELSE (IF b.neg THEN <<"-">> ELSE <<>>) \o b.dg

IsZero(b) == b.dg = <<>>

IsPositive(b) == ~b.neg /\ b.dg # <<>>

RECURSIVE DigitsLess(_, _)
\* a < b for digit sequences of one length
DigitsLess(a, b) ==
    IF a = <<>> THEN FALSE
    ELSE IF Head(a) # Head(b) THEN DigitVal(Head(a)) < DigitVal(Head(b))
    ELSE DigitsLess(Tail(a), Tail(b))

\* a < b for magnitudes
MagLess(a, b) ==
    \/ Len(a) < Len(b)
    \/ Len(a) = Len(b) /\ DigitsLess(a, b)

\* a < b for integers
IntLess(a, b) ==
    CASE a.neg /\ ~b.neg -> TRUE
      [] ~a.neg /\ b.neg -> FALSE
      [] a.neg /\ b.neg  -> MagLess(b.dg, a.dg)
      [] OTHER           -> MagLess(a.dg, b.dg)

\* s without its last element
Front(s) == SubSeq(s, 1, Len(s) - 1)

RECURSIVE Remainder(_, _)
\* the magnitude dg modulo m, digit by digit
Remainder(dg, m) ==
    IF dg = <<>> THEN 0
    ELSE (Remainder(Front(dg), m) * 10 + DigitVal(dg[Len(dg)])) % m

RECURSIVE Quotient(_, _)
\* the magnitude dg divided by m, digit by digit
Quotient(dg, m) ==
    IF dg = <<>> THEN 0
    ELSE Quotient(Front(dg), m) * 10
         + ((Remainder(Front(dg), m) * 10 + DigitVal(dg[Len(dg)])) \div m)

\* the value of a magnitude of at most 9 digits
SmallNat(dg) == Quotient(dg, 1)

-----------------------------------------------------------------------------
(* datetime.fromisoformat, on the extended ISO forms                       *)
(*   YYYY-MM-DD, YYYY-MM-DD?HH:MM, YYYY-MM-DD?HH:MM:SS, each time form     *)
(*   optionally followed by +HH:MM or -HH:MM                               *)
(* (the basic and fractional forms newer interpreters also accept are not  *)
(* among the timestamps drawn below)                                       *)

NoDate == [ok |-> FALSE, aware |-> FALSE, y |-> 0, mo |-> 0, d |-> 0,
           hh |-> 0, mm |-> 0, ss |-> 0, off |-> 0]

AllDigits(s, a, b) == \A i \in a..b : s[i] \in Digits

Num2(s, i) == DigitVal(s[i]) * 10 + DigitVal(s[i + 1])

Num4(s, i) == Num2(s, i) * 100 + Num2(s, i + 2)

IsLeap(y) == (y % 4 = 0 /\ y % 100 # 0) \/ y % 400 = 0

DaysInMonth(y, mo) ==
    CASE mo \in {4, 6, 9, 11} -> 30
      [] mo = 2               -> IF IsLeap(y) THEN 29 ELSE 28
      [] OTHER                -> 31

\* the date part, s[1..10]
DateWellFormed(s) ==
    /\ Len(s) >= 10
    /\ AllDigits(s, 1, 4) /\ s[5] = "-" /\ AllDigits(s, 6, 7)
    /\ s[8] = "-" /\ AllDigits(s, 9, 10)
    /\ Num4(s, 1) >= 1
    /\ Num2(s, 6) \in 1..12
    /\ Num2(s, 9) \in 1..DaysInMonth(Num4(s, 1), Num2(s, 6))

\* HH:MM at s[i..i+4]
HourMinuteWellFormed(s, i) ==
    /\ Len(s) >= i + 4
    /\ AllDigits(s, i, i + 1) /\ s[i + 2] = ":" /\ AllDigits(s, i + 3, i + 4)
    /\ Num2(s, i) <= 23 /\ Num2(s, i + 3) <= 59

\* the UTC offset suffix: empty, or a sign and HH:MM below 24 hours
OffsetWellFormed(z) ==
    \/ z = <<>>
    \/ /\ Len(z) = 6
       /\ z[1] \in {"+", "-"}
       /\ HourMinuteWellFormed(z, 2)

OffsetMinutes(z) ==
    IF z = <<>> THEN 0
    ELSE (IF z[1] = "-" THEN -1 ELSE 1) * (Num2(z, 2) * 60 + Num2(z, 5))

FromIsoFormat(s) ==
    IF ~DateWellFormed(s) THEN NoDate
    ELSE
    LET date == [ok |-> TRUE, aware |-> FALSE, y |-> Num4(s, 1), mo |-> Num2(s, 6),
                 d |-> Num2(s, 9), hh |-> 0, mm |-> 0, ss |-> 0, off |-> 0]
    IN  IF Len(s) = 10 THEN date
        ELSE IF ~HourMinuteWellFormed(s, 12) THEN NoDate
        ELSE
        LET hasSec == Len(s) >= 19 /\ s[17] = ":"
            secOk  == hasSec => (AllDigits(s, 18, 19) /\ Num2(s, 18) <= 59)
            z      == Slice(s, IF hasSec THEN 20 ELSE 17, Len(s))
        IN  IF secOk /\ OffsetWellFormed(z)
            THEN [date EXCEPT !.aware = (z # <<>>),
                              !.hh = Num2(s, 12), !.mm = Num2(s, 15),
                              !.ss = IF hasSec THEN Num2(s, 18) ELSE 0,
                              !.off = OffsetMinutes(z)]
            ELSE NoDate

\* UTC offset of Asia/Jerusalem in minutes: +03:00 in summer, +02:00 in
\* winter (the switch-over days of March and October are not among the
\* timestamps drawn below)
JerusalemOffset(mo) == IF mo \in 4..9 THEN 180 ELSE 120

\* dt.astimezone(tz).strftime("%H:%M") with tz, dt.strftime("%H:%M") without;
\* a naive dt is first given tz itself
LocalHHMM(dt, tz) ==
    LET wall  == dt.hh * 60 + dt.mm
        local == IF tz /\ dt.aware
                 THEN (wall - dt.off + JerusalemOffset(dt.mo)) % 1440
                 ELSE wall
    IN  Pad2(local \div 60) \o <<":">> \o Pad2(local % 60)

-----------------------------------------------------------------------------
(* bus_info.format_arrival *)

\* the last day datetime can hold, date.max.toordinal()
DateMaxOrdinal == 3652059

\* mins: None when MinutesToArrival is absent or int() fails
ParseMinutes(line) ==
    IF IsNone(line.MinutesToArrival) THEN NoInt
    ELSE ParseInt(PyStr(line.MinutesToArrival))

MinsPart(mins) ==
    CASE ~mins.ok                  -> <<"?", " ", "m", "i", "n">>
      [] ~IsPositive(mins)         -> <<"D", "u", "e">>
      [] mins.dg = <<"1">>         -> <<"1", " ", "m", "i", "n">>
      [] OTHER                     -> IntText(mins) \o <<" ", "m", "i", "n">>

\* dist_val / 1000 does not fit a float: the quotient reaches 2^1024
DivisionOverflows(dg) ==
    \/ Len(dg) > 312
    \/ /\ Len(dg) = 312
       /\ ~MagLess(SubSeq(dg, 1, 17),
                   <<"1", "7", "9", "7", "6", "9", "3", "1", "3", "4", "8",
                     "6", "2", "3", "1", "5", "8">>)

RECURSIVE NatText(_)
\* str(n) of a small natural number
NatText(n) ==
    IF n < 10 THEN <<DigitChars[n + 1]>>
    ELSE NatText(n \div 10) \o <<DigitChars[(n % 10) + 1]>>

\* f"{dist_val/1000:.1f}km" for dist_val >= 1000.  Up to 9 digits the
\* quotient is rounded to one decimal (a tie to the even digit); above, the
\* float's own error decides the last digits and the decimal is cut
FormatKm(dg) ==
    LET n == Len(dg)
    IN  IF n <= 9
        THEN LET v  == SmallNat(dg)
                 lo == v \div 100
                 r  == v % 100
                 t  == IF r > 50 \/ (r = 50 /\ lo % 2 = 1) THEN lo + 1 ELSE lo
             IN  NatText(t \div 10) \o <<".", DigitChars[(t % 10) + 1], "k", "m">>
        ELSE SubSeq(dg, 1, n - 3) \o <<".", dg[n - 2], "k", "m">>

\* the distance block for dist_val = dv: [raised, text]; only ValueError
\* and TypeError are caught
DistOf(dv) ==
    CASE ~dv.ok \/ ~IsPositive(dv)   -> [raised |-> FALSE, text |-> <<>>]
      [] Len(dv.dg) <= 3             -> [raised |-> FALSE, text |-> dv.dg \o <<"m">>]
      [] DivisionOverflows(dv.dg)    -> [raised |-> TRUE, text |-> <<>>]
      [] OTHER                       -> [raised |-> FALSE, text |-> FormatKm(dv.dg)]

\* dist_val: None when Distance is absent or int() fails
ParseDistance(line) ==
    IF IsNone(line.Distance) THEN NoInt ELSE ParseInt(PyStr(line.Distance))

DistPart(line) == DistOf(ParseDistance(line))

\* placeholder, as set before the timestamp is parsed
IsPlaceholder(ts, mins) ==
    /\ ts.k = "str"
    /\ \/ StartsWith(ts.s, <<"9", "9", "9", "9", "-">>)
       \/ StartsWith(ts.s, <<"0", "0", "0", "1", "-">>)
       \/ /\ EndsWith(ts.s, <<"0", "0", ":", "0", "0", ":", "0", "0">>)
          /\ mins.ok /\ IsPositive(mins)

\* the "HH:MM (sched)" of a parsed timestamp: [failed, text]
SchedOf(dt, tz) ==
    IF dt.ok
    THEN [failed |-> FALSE,
          text |-> LocalHHMM(dt, tz) \o <<" ", "(", "s", "c", "h", "e", "d", ")">>]
    ELSE [failed |-> TRUE, text |-> <<>>]

\* the try block: a timestamp that fails to parse makes it a placeholder
SchedPart(ts, tz) == SchedOf(FromIsoFormat(ReplaceZ(ts.s)), tz)

\* the try block is entered for text that is no placeholder
TrySchedule(ts, mins, tz) ==
    IF ~IsPlaceholder(ts, mins) /\ ts.k = "str"
    THEN SchedPart(ts, tz)
    ELSE [failed |-> FALSE, text |-> <<>>]

\* now + timedelta(minutes=mins): [raised, text] with text = "~HH:MM"
EtaPart(mins, now) ==
    LET total == now.min + Remainder(mins.dg, 1440)
        day   == now.day + Quotient(mins.dg, 1440) + (total \div 1440)
    IN  IF Len(mins.dg) > 10 \/ day > DateMaxOrdinal
        THEN [raised |-> TRUE, text |-> <<>>]
        ELSE [raised |-> FALSE,
              text |-> <<"~">> \o Pad2((total % 1440) \div 60) \o <<":">>
                       \o Pad2(total % 60)]

\* ts_part: the ETA when (placeholder or not ts_part) and mins is known and
\* not negative, else what the try block left: [raised, text]
TimePart(sched, placeholder, mins, now) ==
    IF (placeholder \/ sched.failed \/ sched.text = <<>>) /\ mins.ok /\ ~mins.neg
    THEN EtaPart(mins, now)
    ELSE [raised |-> FALSE, text |-> sched.text]

\* " | ".join(parts)
ReturnParts(parts) ==
    [raised |-> FALSE, parts |-> parts, text |-> Join(parts, <<" ", "|", " ">>)]

\* parts = [p for p in [mins_part, ts_part] if p], unless a block raised
Assemble(mins_part, dist, time) ==
    IF dist.raised \/ time.raised
    THEN [raised |-> TRUE, parts |-> <<>>, text |-> <<>>]
    ELSE ReturnParts(SelectSeq(<<mins_part, time.text>>, LAMBDA p : p # <<>>))

ArrivalOf(mins, dist, ts, now, tz) ==
    Assemble(MinsPart(mins), dist,
             TimePart(TrySchedule(ts, mins, tz), IsPlaceholder(ts, mins), mins, now))

\* format_arrival(line) at time now: [raised, parts, text]
format_arrival(line, now, tz) ==
    ArrivalOf(ParseMinutes(line), DistPart(line), line.DtArrival, now, tz)

-----------------------------------------------------------------------------
(* Stop records: bus_info.extract_stop_name, bus_info.extract_stop_id and  *)
(* main.list_nearby_stops                                                  *)

NameKeys == <<"BusStopName", "Busstopnamehe", "Name", "name", "StopName">>

IdKeys == <<"BusStopId", "Makat", "Id", "StopId", "StopCode">>

StopKeys == {"BusStopName", "Busstopnamehe", "Name", "name", "StopName",
             "BusStopId", "Makat", "Id", "StopId", "StopCode",
             "Distance", "DistanceFromStart"}

\* a stop record with no key set
EmptyStop == [key \in StopKeys |-> NoneVal]

RECURSIVE FirstTruthy(_, _)
\* for k in keys: v = rec.get(k); if v: return str(v) -- else None
FirstTruthy(rec, keys) ==
    IF keys = <<>> THEN NoneVal
    ELSE IF Truthy(rec[Head(keys)]) THEN StrVal(PyStr(rec[Head(keys)]))
    ELSE FirstTruthy(rec, Tail(keys))

extract_stop_id(stop) == FirstTruthy(stop, IdKeys)

extract_stop_name(stop) ==
    LET v == FirstTruthy(stop, NameKeys)
    IN  IF ~IsNone(v) THEN v
        ELSE StrVal(PyStr(PyOr(PyOr(stop["Makat"], stop["BusStopId"]),
                               StrVal(<<"U", "n", "k", "n", "o", "w", "n", " ",
                                        "S", "t", "o", "p">>))))

\* 10**9, the key of a stop whose distance does not parse
SortSentinel == [ok |-> TRUE, neg |-> FALSE,
                 dg |-> <<"1", "0", "0", "0", "0", "0", "0", "0", "0", "0">>]

\* the sort key of a parsed distance: 10**9 when int() raised
KeyOf(v) == IF v.ok THEN v ELSE SortSentinel

\* dist_val(s): int(str(Distance or DistanceFromStart).strip()), else 10**9
dist_val(s) == KeyOf(ParseInt(Strip(PyStr(PyOr(s["Distance"], s["DistanceFromStart"])))))

\* the place stops.sort(key=dist_val) gives the i-th stop: behind every stop
\* with a smaller key and, the sort being stable, every earlier stop with
\* the same key
SortedPlace(list, i) ==
    1 + Cardinality({j \in 1..Len(list) :
                        \/ IntLess(dist_val(list[j]), dist_val(list[i]))
                        \/ j < i /\ ~IntLess(dist_val(list[i]), dist_val(list[j]))})

\* stops.sort(key=dist_val): ascending and stable
SortStops(list) ==
    [p \in 1..Len(list) |-> list[CHOOSE i \in 1..Len(list) : SortedPlace(list, i) = p]]

\* stops[:limit] when limit > 0
LimitStops(list, limit) ==
    IF limit > 0 /\ limit < Len(list) THEN SubSeq(list, 1, limit) ELSE list

\* the list list_nearby_stops works on after the sort and the cut
NearbyStops(upstream, limit) == LimitStops(SortStops(upstream), limit)

-----------------------------------------------------------------------------
(* Line records: bus_info.select_lines_by_number and bus_info.format_line  *)

LineKeys == {"Shilut", "Line", "DestinationName", "DestinationQuarterName",
             "CompanyName", "CompanyHebrewName",
             "MinutesToArrival", "Distance", "DtArrival"}

\* a line record with no key set
EmptyLine == [key \in LineKeys |-> NoneVal]

\* str(line.get("Shilut")) == str(number)
ShilutMatches(line, number) == PyStr(line["Shilut"]) = PyStr(number)

select_lines_by_number(lines, number) ==
    IF ~Truthy(number) THEN lines
    ELSE SelectSeq(lines, LAMBDA line : ShilutMatches(line, number))

\* bidi.get_display: the visual order of the text; text without
\* right-to-left characters, as all text drawn here, is left as it is
get_display(text) == text

\* format_line's number: line.get("Shilut") or line.get("Line", "?")
LineNumber(line) ==
    PyOr(line["Shilut"],
         IF line["Line"].k = "none" THEN StrVal(<<"?">>) ELSE line["Line"])

format_line(line) ==
    LET number   == LineNumber(line)
        dest     == PyOr(PyOr(line["DestinationName"], line["DestinationQuarterName"]),
                         StrVal(<<"?">>))
        operator == PyOr(PyOr(line["CompanyName"], line["CompanyHebrewName"]),
                         StrVal(<<>>))
    IN  Strip(PyStr(number) \o <<" ", "-", ">", " ">> \o get_display(PyStr(dest))
              \o <<" ">>
              \o (IF Truthy(operator)
                  THEN <<"(">> \o get_display(PyStr(operator)) \o <<")">>
                  ELSE <<>>))

-----------------------------------------------------------------------------
(* main.py: what list_nearby_stops and show_lines_for_stop print and return *)

\* one print: human readable text or one JSON document
Text(msg) == [fmt |-> "text", msg |-> msg]

Json(msg) == [fmt |-> "json", msg |-> msg]

\* one upstream call: the function, its argument, the number of results
Call(fn, arg, n) == [fn |-> fn, arg |-> arg, n |-> n]

\* bool(stop) of a stop record: a dict without keys is falsy
StopTruthy(stop) == \E key \in StopKeys : stop[key].k # "none"

\* what list_nearby_stops prints and returns for the sorted and cut list
ListOutput(found, json_mode) ==
    CASE json_mode    -> [ret |-> found, out |-> <<Json("stops")>>]
      [] found = <<>> -> [ret |-> <<>>, out |-> <<Text("No stops found.")>>]
      [] OTHER        -> [ret |-> found,
                          out |-> <<Text("Found stops within radius")>>
                                  \o [i \in 1..Len(found) |-> Text("[idx] name (ID: id)")]]

\* list_nearby_stops after the upstream call: [ret, out]
list_nearby_stops(upstream, limit, json_mode) ==
    ListOutput(NearbyStops(upstream, limit), json_mode)

\* the stop id show_lines_for_stop works with: the one given, else the
\* chosen stop's
ResolvedStopId(stop, stop_id) ==
    IF ~Truthy(stop_id) /\ stop # <<>> /\ StopTruthy(stop[1])
    THEN extract_stop_id(stop[1])
    ELSE stop_id

\* the number of lines printed before format_arrival first raises
PrintedBeforeRaise(lines, now, tz) ==
    LET raising == {i \in 1..Len(lines) : format_arrival(lines[i], now, tz).raised}
    IN  IF raising = {} THEN Len(lines)
        ELSE (CHOOSE i \in raising : \A j \in raising : i <= j) - 1

\* show_lines_for_stop once the stop id and the lines are in hand, shown
\* being the number of lines formatted before format_arrival raises
ShowLines(sid, lines, looked, json_mode, shown) ==
    CASE ~Truthy(sid) ->
             [out |-> <<Text("Can't determine stop id.")>>, calls |-> <<>>,
              raised |-> FALSE]
      [] lines = <<>> ->
             [out |-> <<IF json_mode THEN Json("lines") ELSE Text("No realtime lines.")>>,
              calls |-> looked, raised |-> FALSE]
      [] json_mode ->
             [out |-> IF shown < Len(lines) THEN <<>> ELSE <<Json("lines")>>,
              calls |-> looked, raised |-> shown < Len(lines)]
      [] OTHER ->
             [out |-> <<Text("Lines at stop")>>
                      \o [i \in 1..shown |-> Text(" - line [arrival]")],
              calls |-> looked, raised |-> shown < Len(lines)]

\* lines = get_lines_by_stop(stop_id), filtered when line_filter is truthy
FilteredLines(upstream, line_filter) ==
    IF Truthy(line_filter) THEN select_lines_by_number(upstream, line_filter)
    ELSE upstream

ShowResolved(sid, lines, n, json_mode, now, tz) ==
    ShowLines(sid, lines, <<Call("get_lines_by_stop", sid, n)>>, json_mode,
              PrintedBeforeRaise(lines, now, tz))

\* show_lines_for_stop, upstream being what get_lines_by_stop returns if it
\* is called: [out, calls, raised]
show_lines_for_stop(stop, stop_id, line_filter, json_mode, upstream, now, tz) ==
    ShowResolved(ResolvedStopId(stop, stop_id), FilteredLines(upstream, line_filter),
                 Len(upstream), json_mode, now, tz)

-----------------------------------------------------------------------------
(* Runs of main(): command lines and upstream answers *)

Ascii(c) == StrVal(<<c>>)

\* the command line without any flag
NoArgs ==
    [address |-> NullVal, address_index |-> 0, lat |-> FALSE, lon |-> FALSE,
     stop_id |-> NullVal, first_stop |-> FALSE, list_stops |-> FALSE,
     line |-> NullVal, limit_stops |-> 0, json |-> FALSE]

\* geocoding candidates: ok when lat and lon are there and float() takes them
GeoResults == {<<>>, <<[ok |-> TRUE]>>, <<[ok |-> TRUE], [ok |-> FALSE]>>}

StopWithId ==
    [EmptyStop EXCEPT !["BusStopId"] = IntVal(<<"2", "6", "6", "2", "9">>),
                      !["BusStopName"] = Ascii("A"),
                      !["Distance"] = IntVal(<<"1", "2", "0">>)]

StopWithoutId ==
    [EmptyStop EXCEPT !["Name"] = Ascii("B"), !["Distance"] = IntVal(<<"4", "0">>)]

RunStopLists == {<<>>, <<StopWithId>>, <<StopWithId, StopWithoutId>>}

Line12 ==
    [EmptyLine EXCEPT !["Shilut"] = StrVal(<<"1", "2">>),
                      !["DestinationName"] = Ascii("X"),
                      !["MinutesToArrival"] = StrVal(<<"5">>)]

Line7 ==
    [EmptyLine EXCEPT !["Shilut"] = StrVal(<<"7">>),
                      !["DtArrival"] = StrVal(<<"2", "0", "2", "4", "-", "0", "1", "-", "0", "1", "T", "1", "4", ":", "3", "0", ":", "0", "0", "+", "0", "2", ":", "0", "0">>)]

LineFarAway ==
    [EmptyLine EXCEPT !["Shilut"] = StrVal(<<"1", "2">>),
                      !["MinutesToArrival"] = StrVal(<<"9", "9", "9", "9", "9", "9", "9", "9", "9", "9", "9">>)]

RunLineLists == {<<>>, <<Line12, Line7>>, <<Line12, LineFarAway>>}

CommandLines ==
    [address : {NullVal, Ascii("x")}, address_index : {-1, 0, 1},
     lat : BOOLEAN, lon : BOOLEAN, stop_id : {NullVal, StrVal(<<"2", "6", "6", "2", "9">>)},
     first_stop : BOOLEAN, list_stops : BOOLEAN, line : {NullVal, StrVal(<<"1", "2">>)},
     limit_stops : {0, 1}, json : BOOLEAN]

-----------------------------------------------------------------------------
(* main.main: the non-interactive run *)

\* non_interactive: any of the listed flags is truthy
NonInteractive(a) ==
    \/ Truthy(a.address) \/ a.lat \/ a.lon \/ Truthy(a.stop_id)
    \/ a.first_stop \/ a.list_stops \/ Truthy(a.line) \/ a.json

\* the range test without its lower bound
IndexOutOfRange_NoLowerBound(index, n) == index >= n

\* args.address_index < 0 or args.address_index >= len(addr_results)
IndexOutOfRange(index, n) == index < 0 \/ index >= n

\* addr_results[index], a negative index counting from the end
PyIndex(seq, index) == IF index < 0 THEN seq[Len(seq) + index + 1] ELSE seq[index + 1]

\* the process ends with this status; an uncaught exception ends it with a
\* traceback on standard error and status 1
Exit(status) == pc' = "exited" /\ exit_status' = status

Traceback == Text("Traceback (most recent call last)")

\* main() up to the branch on non_interactive
Main ==
    /\ pc = "main"
    /\ pc' = IF NonInteractive(args) THEN "resolve" ELSE "prompt_address"
    /\ UNCHANGED <<args, coords, geo, stops, chosen_stop, stdout, stderr, calls,
                   exit_status, inputs>>
    /\ UNCHANGED callVars

\* main(): coordinates from --lat/--lon or from geocoding --address, then
\* the test that stop lookup has coordinates
ResolveLocation ==
    /\ pc = "resolve"
    /\ \E results \in GeoResults :
         LET useCoords  == args.lat /\ args.lon
             useAddress == ~useCoords /\ Truthy(args.address)
             noResults  == useAddress /\ results = <<>>
             badIndex   == useAddress /\ results # <<>>
                           /\ IndexOutOfRange(args.address_index, Len(results))
             selected   == useAddress /\ ~noResults /\ ~badIndex
             \* float(sel["lat"]) raises
             badRecord  == selected /\ ~PyIndex(results, args.address_index).ok
             have       == useCoords \/ (selected /\ ~badRecord)
             needCoords == (args.list_stops \/ args.first_stop) /\ ~have
         IN  /\ calls' = IF useAddress
                         THEN Append(calls, Call("search_address", args.address, Len(results)))
                         ELSE calls
             /\ geo' = IF useAddress THEN results ELSE geo
             /\ CASE noResults ->
                       /\ stderr' = Append(stderr, Text("No address results"))
                       /\ Exit(2) /\ coords' = FALSE
                  [] badIndex ->
                       /\ stderr' = Append(stderr, Text("address-index out of range"))
                       /\ Exit(2) /\ coords' = FALSE
                  [] badRecord ->
                       /\ stderr' = Append(stderr, Traceback)
                       /\ Exit(1) /\ coords' = FALSE
                  [] needCoords ->
                       /\ stderr' = Append(stderr,
                                Text("Need --address or --lat/--lon for stop lookup"))
                       /\ Exit(2) /\ coords' = FALSE
                  [] OTHER ->
                       /\ coords' = have
                       /\ pc' = "stops"
                       /\ UNCHANGED <<stderr, exit_status>>
    /\ UNCHANGED <<args, stops, chosen_stop, stdout, inputs>>
    /\ UNCHANGED callVars

\* main() after list_nearby_stops returned r: the nearest stop is chosen
\* under --first-stop; --list-stops alone ends the run
AfterNearby(r, n) ==
    /\ calls' = Append(calls, Call("get_stops_near_location", NullVal, n))
    /\ stops' = r.ret
    /\ chosen_stop' = IF args.first_stop /\ r.ret # <<>> THEN <<r.ret[1]>> ELSE <<>>
    /\ stdout' = stdout \o r.out
                 \o (IF args.first_stop /\ r.ret # <<>> /\ ~args.json
                     THEN <<Text("Selected nearest stop")>> ELSE <<>>)
    /\ IF args.list_stops /\ ~args.first_stop
       THEN Exit(0)
       ELSE pc' = "lines" /\ UNCHANGED exit_status

\* main(): the nearby-stop lookup and the choice of the nearest stop
NearbyStep ==
    /\ pc = "stops"
    /\ IF coords /\ (args.list_stops \/ args.first_stop)
       THEN \E upstream \in RunStopLists :
              AfterNearby(list_nearby_stops(upstream, args.limit_stops,
                                            args.json /\ ~args.first_stop),
                          Len(upstream))
       ELSE /\ pc' = "lines"
            /\ UNCHANGED <<calls, stops, chosen_stop, stdout, exit_status>>
    /\ UNCHANGED <<args, coords, geo, stderr, inputs>>
    /\ UNCHANGED callVars

\* main() after show_lines_for_stop returned r, or raised
AfterLines(r) ==
    /\ calls' = calls \o r.calls
    /\ stdout' = stdout \o r.out
    /\ stderr' = IF r.raised THEN Append(stderr, Traceback) ELSE stderr
    /\ Exit(IF r.raised THEN 1 ELSE 0)

\* stop_id = args.stop_id or (extract_stop_id(chosen_stop) if chosen_stop else None)
StopIdInHand ==
    PyOr(args.stop_id,
         IF chosen_stop # <<>> /\ StopTruthy(chosen_stop[1])
         THEN extract_stop_id(chosen_stop[1]) ELSE NullVal)

\* main(): the realtime lines of the stop id in hand
LinesStep ==
    /\ pc = "lines"
    /\ IF Truthy(StopIdInHand)
       THEN \E upstream \in RunLineLists :
              AfterLines(show_lines_for_stop(chosen_stop, StopIdInHand, args.line,
                                             args.json, upstream, fa_now, fa_tz))
       ELSE /\ IF Truthy(args.line)
               THEN /\ stderr' = Append(stderr,
                              Text("Line filter specified but no stop id context"))
                    /\ Exit(2)
               ELSE /\ Exit(0)
                    /\ UNCHANGED stderr
            /\ UNCHANGED <<calls, stdout>>
    /\ UNCHANGED <<args, coords, geo, stops, chosen_stop, inputs>>
    /\ UNCHANGED callVars

-----------------------------------------------------------------------------
(* main.interactive_main: the prompts *)

\* the number of input() calls a run is followed for
MaxInputs == 5

\* what the user types at a prompt
QueryInputs == {<<>>, <<" ">>, <<"x">>}

ChoiceInputs == {<<>>, <<"a">>, <<"-", "1">>, <<"0">>, <<"1">>, <<"7">>}

MenuInputs == {<<"1">>, <<"2">>, <<"3">>, <<"q">>, <<"x">>}

\* str.isdigit() of typed text
IsDigit(text) == text # <<>> /\ \A i \in 1..Len(text) : text[i] \in Digits

\* 0 <= choice < n for a parsed choice
ChoiceInRange(choice, n) == choice.ok /\ ~choice.neg /\ SmallNat(choice.dg) < n

\* prompt_address() after search_address returned results: no result asks
\* again, else the candidates are listed
AfterSearch(query, results) ==
    /\ calls' = Append(calls, Call("search_address", StrVal(query), Len(results)))
    /\ geo' = results
    /\ IF results = <<>>
       THEN /\ stdout' = Append(stdout, Text("No results. Try again."))
            /\ pc' = "prompt_address"
       ELSE /\ stdout' = stdout \o [i \in 1..Len(results) |-> Text("[i] label")]
            /\ pc' = "pick_address"
    /\ UNCHANGED exit_status

\* prompt_address(): the query; a blank query raises SystemExit
PromptAddress ==
    /\ pc = "prompt_address"
    /\ inputs < MaxInputs
    /\ inputs' = inputs + 1
    /\ \E query \in QueryInputs :
         IF Strip(query) = <<>>
         THEN /\ Exit(0)
              /\ UNCHANGED <<calls, geo, stdout>>
         ELSE \E results \in GeoResults : AfterSearch(Strip(query), results)
    /\ UNCHANGED <<args, coords, stops, chosen_stop, stderr>>
    /\ UNCHANGED callVars

\* prompt_address(): the pick loop; ValueError and KeyError ask again
PickAddress ==
    /\ pc = "pick_address"
    /\ inputs < MaxInputs
    /\ inputs' = inputs + 1
    /\ \E typed \in ChoiceInputs :
         IF /\ ChoiceInRange(ParseInt(typed), Len(geo))
            /\ geo[SmallNat(ParseInt(typed).dg) + 1].ok
         THEN /\ coords' = TRUE
              /\ pc' = "menu"
              /\ UNCHANGED stdout
         ELSE /\ stdout' = Append(stdout, Text("Invalid choice."))
              /\ UNCHANGED <<coords, pc>>
    /\ UNCHANGED <<args, geo, stops, chosen_stop, stderr, calls, exit_status>>
    /\ UNCHANGED callVars

\* interactive_main(): one turn of the menu
Menu ==
    /\ pc = "menu"
    /\ inputs < MaxInputs
    /\ inputs' = inputs + 1
    /\ \E choice \in MenuInputs :
         CASE choice = <<"1">> ->
                 /\ pc' = "radius"
                 /\ stdout' = Append(stdout, Text("Menu"))
                 /\ UNCHANGED exit_status
           [] choice = <<"2">> ->
                 /\ pc' = "prompt_address"
                 /\ stdout' = Append(stdout, Text("Menu"))
                 /\ UNCHANGED exit_status
           [] choice \in {<<"3">>, <<"q">>} ->
                 /\ Exit(0)
                 /\ stdout' = Append(stdout, Text("Menu"))
           [] OTHER ->
                 /\ stdout' = stdout \o <<Text("Menu"), Text("Unknown option.")>>
                 /\ UNCHANGED <<pc, exit_status>>
    /\ UNCHANGED <<args, coords, geo, stops, chosen_stop, stderr, calls>>
    /\ UNCHANGED callVars

\* interactive_main() after list_nearby_stops returned r: no stop goes back
\* to the menu
AfterRadius(r, n) ==
    /\ calls' = Append(calls, Call("get_stops_near_location", NullVal, n))
    /\ stops' = r.ret
    /\ stdout' = stdout \o r.out
    /\ pc' = IF r.ret = <<>> THEN "menu" ELSE "pick_stop"

\* interactive_main(): the radius prompt (any typed radius leads to the
\* lookup) and the stop listing; no stop is selected yet
NearbyMenu ==
    /\ pc = "radius"
    /\ inputs < MaxInputs
    /\ inputs' = inputs + 1
    /\ \E upstream \in RunStopLists :
         AfterRadius(list_nearby_stops(upstream, 0, FALSE), Len(upstream))
    /\ chosen_stop' = <<>>
    /\ UNCHANGED <<args, coords, geo, stderr, exit_status>>
    /\ UNCHANGED callVars

\* interactive_main() after show_lines_for_stop(stops[idx]) returned r, or
\* raised
AfterPick(r) ==
    /\ calls' = calls \o r.calls
    /\ stdout' = stdout \o r.out
    /\ IF r.raised
       THEN stderr' = Append(stderr, Traceback) /\ Exit(1)
       ELSE pc' = "menu" /\ UNCHANGED <<stderr, exit_status>>

\* interactive_main(): the stop pick; anything but an index in range goes
\* back to the menu
PickStop ==
    /\ pc = "pick_stop"
    /\ inputs < MaxInputs
    /\ inputs' = inputs + 1
    /\ \E typed \in ChoiceInputs :
         IF IsDigit(Strip(typed)) /\ ChoiceInRange(ParseInt(typed), Len(stops))
         THEN /\ chosen_stop' = <<stops[SmallNat(ParseInt(typed).dg) + 1]>>
              /\ \E upstream \in RunLineLists :
                   AfterPick(show_lines_for_stop(chosen_stop', NullVal, NullVal, FALSE,
                                                 upstream, fa_now, fa_tz))
         ELSE /\ pc' = "menu"
              /\ UNCHANGED <<chosen_stop, calls, stdout, stderr, exit_status>>
    /\ UNCHANGED <<args, coords, geo, stops>>
    /\ UNCHANGED callVars

-----------------------------------------------------------------------------
(* Line records handed to format_arrival *)

MinutesSamples ==
    {NoneVal,
     IntVal(<<"0">>),
     IntVal(<<"5">>),
     IntVal(<<"-", "2">>),
     StrVal(<<"5">>),
     StrVal(<<" ", "3", " ">>),
     StrVal(<<"1">>),
     StrVal(<<"a", "b", "c">>),
     StrVal(<<>>),
     StrVal(<<"1", "5", "0", "0">>),
     StrVal(<<"9", "9", "9", "9", "9", "9", "9", "9", "9", "9", "9">>)}

DistanceSamples ==
    {NoneVal,
     IntVal(<<"4", "5", "0">>),
     IntVal(<<"0">>),
     StrVal(<<"2", "5", "0", "0">>),
     StrVal(<<"-", "5">>),
     StrVal(<<"x">>)}

SampleDates ==
    {<<"2", "0", "2", "4", "-", "0", "1", "-", "0", "1">>,
     <<"2", "0", "2", "4", "-", "0", "7", "-", "1", "5">>,
     <<"9", "9", "9", "9", "-", "1", "2", "-", "3", "1">>,
     <<"0", "0", "0", "1", "-", "0", "1", "-", "0", "1">>,
     <<"2", "0", "2", "4", "-", "1", "3", "-", "0", "1">>}

SampleTimes ==
    {<<"T", "0", "0", ":", "0", "0", ":", "0", "0">>,
     <<"T", "1", "4", ":", "3", "0", ":", "0", "0">>,
     <<"T", "2", "2", ":", "0", "0", ":", "0", "0">>,
     <<"T", "0", "0", ":", "0", "0">>}

SampleZones ==
    {<<>>, <<"Z">>, <<"+", "0", "2", ":", "0", "0">>}

TimestampSamples ==
    {NoneVal, IntVal(<<"0">>), StrVal(<<>>), StrVal(<<"a", "b", "c">>),
     StrVal(<<"2", "0", "2", "4", "-", "0", "1", "-", "0", "1">>)}
    \cup {StrVal(d \o t \o z) : d \in SampleDates, t \in SampleTimes, z \in SampleZones}

\* datetime.now(): the day's ordinal and the minute of the day
NowSamples == {[day |-> 739925, min |-> m] : m \in {615, 1438}}

\* the variables of the calls a specification does not make
ArrivalOff ==
    /\ fa_pc = "off"
    /\ fa_line = [MinutesToArrival |-> NoneVal, Distance |-> NoneVal, DtArrival |-> NoneVal]
    /\ fa_now = [day |-> 739925, min |-> 615]
    /\ fa_tz = TRUE
    /\ fa_out = [raised |-> FALSE, parts |-> <<>>, text |-> <<>>]

SortOff == ns_pc = "off" /\ ns_upstream = <<>> /\ ns_limit = 0 /\ ns_out = <<>>

FilterOff == fl_pc = "off" /\ fl_lines = <<>> /\ fl_number = NoneVal /\ fl_out = <<>>

RunOff ==
    /\ pc = "off" /\ args = NoArgs /\ coords = FALSE /\ geo = <<>> /\ stops = <<>>
    /\ chosen_stop = <<>> /\ stdout = <<>> /\ stderr = <<>> /\ calls = <<>>
    /\ exit_status = 0 /\ inputs = 0

ArrivalInit ==
    /\ fa_pc = "idle"
    /\ fa_line \in [MinutesToArrival : MinutesSamples, Distance : DistanceSamples,
                    DtArrival : TimestampSamples]
    /\ fa_now \in NowSamples
    /\ fa_tz \in BOOLEAN
    /\ fa_out = [raised |-> FALSE, parts |-> <<>>, text |-> <<>>]
    /\ SortOff
    /\ FilterOff
    /\ RunOff

\* one call of format_arrival(line)
FormatArrival ==
    /\ fa_pc = "idle"
    /\ fa_out' = format_arrival(fa_line, fa_now, fa_tz)
    /\ fa_pc' = "called"
    /\ UNCHANGED <<fa_line, fa_now, fa_tz>>
    /\ UNCHANGED <<sortVars, filterVars, runVars>>

ArrivalNext == FormatArrival

SpecArrival == ArrivalInit /\ [][ArrivalNext]_vars

-----------------------------------------------------------------------------
(* Claims about format_arrival, checked under SpecArrival *)

Returned == fa_pc = "called"

IsSchedSegment(p) == EndsWith(p, <<"(", "s", "c", "h", "e", "d", ")">>)

IsEtaSegment(p) == p # <<>> /\ p[1] = "~"

IsDistanceSegment(p) == EndsWith(p, <<"m">>)

TimeSegments(parts) == SelectSeq(parts, LAMBDA p : IsSchedSegment(p) \/ IsEtaSegment(p))

\* the clock time mins minutes after now, as "~HH:MM"
ClockAfter(now, mins) ==
    LET t == (now.min + Remainder(mins.dg, 1440)) % 1440
    IN  <<"~">> \o Pad2(t \div 60) \o <<":">> \o Pad2(t % 60)

\* the timestamp is text, is not classified a placeholder, and parses
ScheduledCase(line) ==
    /\ line.DtArrival.k = "str"
    /\ ~IsPlaceholder(line.DtArrival, ParseMinutes(line))
    /\ FromIsoFormat(ReplaceZ(line.DtArrival.s)).ok

\* the timestamp is text whose year is no sentinel and whose time of day is 00:00:00
MidnightTimestamp(ts) ==
    /\ ts.k = "str"
    /\ LET dt == FromIsoFormat(ReplaceZ(ts.s))
       IN  dt.ok /\ dt.y \notin {1, 9999} /\ dt.hh = 0 /\ dt.mm = 0 /\ dt.ss = 0

\* C4: format_arrival emits at most one time segment: "HH:MM (sched)" exactly
\* when the timestamp is text, no placeholder and parses; otherwise "~HH:MM"
\* for now + minutes when minutes are known and non-negative, else none.
C4_OneTimeSegment ==
    Returned =>
        LET mins == ParseMinutes(fa_line)
            segs == TimeSegments(fa_out.parts)
        IN  /\ Len(segs) <= 1
            /\ ScheduledCase(fa_line) => (Len(segs) = 1 /\ IsSchedSegment(segs[1]))
            /\ (~ScheduledCase(fa_line) /\ mins.ok /\ ~mins.neg)
                   => segs = <<ClockAfter(fa_now, mins)>>
            /\ (~ScheduledCase(fa_line) /\ ~(mins.ok /\ ~mins.neg)) => segs = <<>>
            /\ IsPlaceholder(fa_line.DtArrival, mins)
                   => \A i \in 1..Len(segs) : ~IsSchedSegment(segs[i])

\* C5: a midnight timestamp of a non-sentinel year is a placeholder (ETA
\* segment, no "(sched)" segment) if and only if minutes are known and
\* positive, in every textual form of the timestamp; otherwise it is shown
\* as the scheduled time.
C5_MidnightPlaceholder ==
    (Returned /\ MidnightTimestamp(fa_line.DtArrival)) =>
        LET mins == ParseMinutes(fa_line)
            segs == TimeSegments(fa_out.parts)
        IN  IF mins.ok /\ IsPositive(mins)
            THEN segs = <<ClockAfter(fa_now, mins)>>
            ELSE Len(segs) = 1 /\ IsSchedSegment(segs[1])

\* C6: the result is non-empty, its first segment is the minutes part
\* ("? min", "Due", "1 min" or "{n} min"), segments are joined by " | " and
\* none is empty.
C6_MinutesFirst ==
    Returned =>
        LET mins == ParseMinutes(fa_line)
        IN  /\ fa_out.text # <<>>
            /\ fa_out.parts # <<>>
            /\ fa_out.parts[1] =
                   (CASE ~mins.ok             -> <<"?", " ", "m", "i", "n">>
                      [] ~IsPositive(mins)    -> <<"D", "u", "e">>
                      [] mins.dg = <<"1">>    -> <<"1", " ", "m", "i", "n">>
                      [] OTHER                -> mins.dg \o <<" ", "m", "i", "n">>)
            /\ \A i \in 1..Len(fa_out.parts) : fa_out.parts[i] # <<>>
            /\ fa_out.text = Join(fa_out.parts, <<" ", "|", " ">>)

\* C7: format_arrival returns a display string for every line record and
\* never raises.
C7_NeverRaises == Returned => ~fa_out.raised

\* C9: when Distance parses to a positive integer the returned arrival text
\* has the distance segment ("{d}m" below 1000, else kilometres with one
\* decimal); otherwise it has no distance segment.
C9_DistanceSegment ==
    Returned =>
        LET dv == ParseDistance(fa_line)
        IN  IF dv.ok /\ IsPositive(dv)
            THEN \E i \in 1..Len(fa_out.parts) :
                     /\ IsDistanceSegment(fa_out.parts[i])
                     /\ fa_out.parts[i] = IF Len(dv.dg) <= 3 THEN dv.dg \o <<"m">>
                                          ELSE FormatKm(dv.dg)
            ELSE \A i \in 1..Len(fa_out.parts) : ~IsDistanceSegment(fa_out.parts[i])

-----------------------------------------------------------------------------
(* Stop lists handed to list_nearby_stops *)

\* longest upstream stop list drawn
MaxStops == 3

StopDistanceSamples ==
    {NoneVal,
     IntVal(<<"0">>),
     IntVal(<<"5">>),
     IntVal(<<"-", "3">>),
     StrVal(<<" ", "1", "2", " ">>),
     StrVal(<<"a", "b", "c">>),
     StrVal(<<"2", "0", "0", "0", "0", "0", "0", "0", "0", "0">>)}

StopFromStartSamples == {NoneVal, IntVal(<<"7">>)}

\* the i-th upstream stop: its id tells the records apart
SampleStop(i, d, f) ==
    [EmptyStop EXCEPT !["BusStopId"] = IntVal(<<DigitChars[i + 1]>>),
                      !["Distance"] = d, !["DistanceFromStart"] = f]

\* the upstream lists of n stops
StopLists(n) ==
    {[i \in 1..n |-> SampleStop(i, ds[i], fs[i])] :
        ds \in [1..n -> StopDistanceSamples],
        fs \in [1..n -> StopFromStartSamples]}

SortInit ==
    /\ ns_pc = "idle"
    /\ \E n \in 0..MaxStops : ns_upstream \in StopLists(n)
    /\ ns_limit \in 0..(MaxStops - 1)
    /\ ns_out = <<>>
    /\ ArrivalOff
    /\ FilterOff
    /\ RunOff

\* one call of list_nearby_stops: the list it returns
ListNearbyStops ==
    /\ ns_pc = "idle"
    /\ ns_out' = NearbyStops(ns_upstream, ns_limit)
    /\ ns_pc' = "called"
    /\ UNCHANGED <<ns_upstream, ns_limit>>
    /\ UNCHANGED <<arrivalVars, filterVars, runVars>>

SortNext == ListNearbyStops

SpecSort == SortInit /\ [][SortNext]_vars

\* the distance the stop record carries: Distance, else DistanceFromStart
CarriedDistance(s) ==
    LET d == IF ~IsNone(s["Distance"]) THEN s["Distance"] ELSE s["DistanceFromStart"]
    IN  IF IsNone(d) THEN NoInt ELSE ParseInt(PyStr(d))

\* C1: in the list list_nearby_stops returns, the parsed distances are
\* non-decreasing and every stop whose distance parses (0 included) comes
\* before every stop whose distance is absent or does not parse.
C1_SortedByDistance ==
    ns_pc = "called" =>
        \A i, j \in 1..Len(ns_out) :
            i < j =>
                LET a == CarriedDistance(ns_out[i])
                    b == CarriedDistance(ns_out[j])
                IN  /\ (a.ok /\ b.ok) => ~IntLess(b, a)
                    /\ ~(~a.ok /\ b.ok)

-----------------------------------------------------------------------------
(* Line lists and numbers handed to select_lines_by_number *)

\* longest line list drawn
MaxLines == 3

ShilutSamples ==
    {NoneVal, NullVal, IntVal(<<"1", "2">>), StrVal(<<"1", "2">>),
     StrVal(<<"0", "1", "2">>), StrVal(<<>>)}

LineFieldSamples == {NoneVal, StrVal(<<"1", "2">>)}

NumberSamples ==
    {NullVal, StrVal(<<>>), StrVal(<<"1", "2">>), StrVal(<<"0", "1", "2">>)}

\* the line lists of n records
LineLists(n) ==
    {[i \in 1..n |-> [EmptyLine EXCEPT !["Shilut"] = sh[i], !["Line"] = ln[i]]] :
        sh \in [1..n -> ShilutSamples],
        ln \in [1..n -> LineFieldSamples]}

FilterInit ==
    /\ fl_pc = "idle"
    /\ \E n \in 0..MaxLines : fl_lines \in LineLists(n)
    /\ fl_number \in NumberSamples
    /\ fl_out = <<>>
    /\ ArrivalOff
    /\ SortOff
    /\ RunOff

\* one call of select_lines_by_number
SelectLines ==
    /\ fl_pc = "idle"
    /\ fl_out' = select_lines_by_number(fl_lines, fl_number)
    /\ fl_pc' = "called"
    /\ UNCHANGED <<fl_lines, fl_number>>
    /\ UNCHANGED <<arrivalVars, sortVars, runVars>>

FilterNext == SelectLines

SpecFilter == FilterInit /\ [][FilterNext]_vars

\* the line-number field: the first truthy value among Shilut, then Line
NumberField(line) == PyOr(line["Shilut"], line["Line"])

\* C3: select_lines_by_number returns exactly the lines, in input order,
\* whose line-number field (first truthy of Shilut, Line) is string-equal to
\* the filter; with an empty or absent filter it returns the input unchanged.
C3_ExactSubsequence ==
    fl_pc = "called" =>
        fl_out = IF ~Truthy(fl_number) THEN fl_lines
                 ELSE SelectSeq(fl_lines,
                                LAMBDA line : /\ Truthy(NumberField(line))
                                              /\ PyStr(NumberField(line)) = fl_number.s)

-----------------------------------------------------------------------------
(* Runs of main() *)

Init ==
    /\ pc = "main"
    /\ args \in CommandLines
    /\ coords = FALSE /\ geo = <<>> /\ stops = <<>> /\ chosen_stop = <<>>
    /\ stdout = <<>> /\ stderr = <<>> /\ calls = <<>>
    /\ exit_status = 0 /\ inputs = 0
    /\ ArrivalOff
    /\ SortOff
    /\ FilterOff

Next ==
    \/ Main
    \/ ResolveLocation
    \/ NearbyStep
    \/ LinesStep
    \/ PromptAddress
    \/ PickAddress
    \/ Menu
    \/ NearbyMenu
    \/ PickStop

Spec == Init /\ [][Next]_vars

-----------------------------------------------------------------------------
(* Properties of the runs of main() *)

\* the stop this step shows lines for has no usable id, and no --stop-id
UnresolvableChosen ==
    /\ pc \in {"lines", "pick_stop"}
    /\ chosen_stop' # <<>>
    /\ ~Truthy(extract_stop_id(chosen_stop'[1]))
    /\ ~Truthy(args.stop_id)

\* the step reports the failure: the message on standard output, a
\* message on standard error, or a non-zero exit status
ReportsUnresolvable ==
    \/ /\ Len(stdout') > Len(stdout)
       /\ stdout'[Len(stdout')] = Text("Can't determine stop id.")
    \/ Len(stderr') > Len(stderr)
    \/ exit_status' # 0

\* C2: when a stop has been chosen (by index at the prompt, or by
\* --first-stop), extract_stop_id gives None for it and no stop id was
\* supplied, the step that would show its lines issues no realtime-line
\* lookup and reports the stop as unresolvable, in the interactive and in
\* the non-interactive flow.
C2_UnresolvableReported ==
    [][UnresolvableChosen => (calls' = calls /\ ReportsUnresolvable)]_vars

\* the run took the address path and geocoding gave no candidate, or
\* --address-index is outside the candidates
AddressPathFailed ==
    /\ NonInteractive(args)
    /\ ~(args.lat /\ args.lon)
    /\ Truthy(args.address)
    /\ \E i \in 1..Len(calls) :
         /\ calls[i].fn = "search_address"
         /\ \/ calls[i].n = 0
            \/ args.address_index < 0
            \/ args.address_index >= calls[i].n

\* C8: in a non-interactive run on the address path, when geocoding returns
\* no candidate or --address-index is out of range, the run has ended with a
\* non-zero exit status and a message on standard error, and neither the
\* nearby-stop lookup nor the realtime-line lookup was issued, --stop-id or
\* not.
C8_AddressFailureEndsRun ==
    AddressPathFailed =>
        /\ pc = "exited"
        /\ exit_status # 0
        /\ stderr # <<>>
        /\ \A i \in 1..Len(calls) :
             calls[i].fn \notin {"get_stops_near_location", "get_lines_by_stop"}

\* an out-of-range --address-index with candidates and --stop-id given: the
\* run ended with status 2 after the geocoding call alone
C8_Witness ==
    /\ AddressPathFailed
    /\ Truthy(args.stop_id)
    /\ args.address_index = -1
    /\ geo # <<>>
    /\ pc = "exited"
    /\ exit_status = 2
    /\ Len(calls) = 1

\* C10: in a non-interactive run with --json, whatever the other flags and
\* the upstream results, everything written to standard output is JSON.
C10_JsonOnlyStdout ==
    (NonInteractive(args) /\ args.json) =>
        \A i \in 1..Len(stdout) : stdout[i].fmt = "json"

=============================================================================
